---- MODULE Spec2Model ----
(***************************************************************************)
(* A model of app.py: the /update ingestion handler, the harvest_data      *)
(* table it appends to, the size classifier, and the read pages            *)
(* (/, /harvest, /harvest/<date>, /temp, /humid).                          *)
(*                                                                         *)
(* Numbers are fixed-point tenths: a mass of 9.5 g is 95, a distance of    *)
(* 4.0 cm is 40, so the breakpoints 8, 10, 14, 21 of get_size_class are    *)
(* 80, 100, 140, 210.  Timestamps are clock ticks; TicksPerDay of them     *)
(* make one calendar day.                                                  *)
(***************************************************************************)
EXTENDS Integers, Sequences, FiniteSets, TLC

VARIABLES
    table,    \* the rows of harvest_data, in insertion (id) order
    utcnow,   \* the value the next datetime.utcnow() call returns
    last,     \* the last request served and its response
    pc,       \* concurrent /update workers: where each one is in update()
    pending,  \* concurrent /update workers: the row each one has built
    okCount,  \* concurrent /update workers: how many calls returned 200
    arg,      \* classifier run: the argument of get_size_class
    ret       \* classifier run: what get_size_class returned

vars == <<table, utcnow, last, pc, pending, okCount, arg, ret>>

---------------------------------------------------------------------------
(* Bounds *)

MaxRows == 2        \* rows the table may hold
MaxClock == 3       \* clock ticks 0 .. MaxClock - 1 are read by utcnow()
TicksPerDay == 2    \* clock ticks per calendar day
NumProcs == 2       \* concurrent /update workers
MassRange == 250    \* the classifier is run on masses -MassRange .. MassRange

---------------------------------------------------------------------------
(* Python / JSON values: None, numbers, strings, booleans; RAISE stands    *)
(* for an exception leaving the function.                                  *)

NULL == [t |-> "null", v |-> 0]
RAISE == [t |-> "raise", v |-> 0]
PENDING == [t |-> "pending", v |-> 0]
Num(n) == [t |-> "num", v |-> n]
Str(s) == [t |-> "str", v |-> s]
Bool(b) == [t |-> "bool", v |-> IF b THEN 1 ELSE 0]

Labels == {Str("S"), Str("M"), Str("L"), Str("2L")}

(* get_size_class with <= where the code has <. *)
get_size_class_le(mass) ==
    IF mass.t = "null" THEN NULL
    ELSE IF mass.t # "num" THEN RAISE
    ELSE IF mass.v <= 80 THEN Str("S")
    ELSE IF mass.v <= 100 THEN Str("M")
    ELSE IF mass.v <= 140 THEN Str("L")
    ELSE IF mass.v <= 210 THEN Str("2L")
    ELSE Str("2L")

(* get_size_class without the breakpoint at 14. *)
get_size_class_3L(mass) ==
    IF mass.t = "null" THEN NULL
    ELSE IF mass.t # "num" THEN RAISE
    ELSE IF mass.v < 80 THEN Str("S")
    ELSE IF mass.v < 100 THEN Str("M")
    ELSE IF mass.v < 210 THEN Str("L")
    ELSE Str("2L")

(* get_size_class, app.py 55-67.  Comparing a str with an int raises       *)
(* TypeError.                                                              *)
get_size_class(mass) ==
    IF mass.t = "null" THEN NULL
    ELSE IF mass.t # "num" THEN RAISE
    ELSE IF mass.v < 80 THEN Str("S")
    ELSE IF mass.v < 100 THEN Str("M")
    ELSE IF mass.v < 140 THEN Str("L")
    ELSE IF mass.v < 210 THEN Str("2L")
    ELSE Str("2L")

---------------------------------------------------------------------------
(* Request bodies, as request.get_json() sees them.                        *)

EmptyObj == [k \in {} |-> NULL]

(* kind "missing": no body or a body that is not JSON, sent as             *)
(* application/json (get_json aborts with 400); otherwise the JSON         *)
(* value: n is a number's value, a string's or array's length, a           *)
(* boolean's truth value, an object's number of keys.                      *)
Body(kind, n) == [kind |-> kind, n |-> n, obj |-> EmptyObj]
Obj(f) == [kind |-> "obj", n |-> Cardinality(DOMAIN f), obj |-> f]

NonObjects ==
    { Body("missing", 0), Body("null", 0),
      Body("num", 0), Body("num", 5),
      Body("str", 0), Body("str", 3),
      Body("arr", 0), Body("arr", 1),
      Body("bool", 0), Body("bool", 1) }

FieldValues(k) ==
    CASE k = "mass" -> {Num(95), Num(150), Str("abc"), Str("9.5")}
      [] k = "distance" -> {Num(40), Num(50), Str("abc"), Str("4.0")}
      [] k = "temp" -> {Num(200)}
      [] k = "humid" -> {Num(600)}
      [] k = "device_on" -> {Bool(TRUE)}

KeySets ==
    { {}, {"mass"}, {"distance"}, {"mass", "distance"},
      {"temp"}, {"temp", "humid"}, {"device_on"} }

(* A full reading, and a power-on notice that also carries a reading. *)
FullBodies ==
    { Obj([k \in {"mass", "distance", "temp", "humid"} |->
             CASE k = "mass" -> Num(95) [] k = "distance" -> Num(40)
               [] k = "temp" -> Num(200) [] k = "humid" -> Num(600)]),
      Obj([k \in {"device_on", "mass", "distance"} |->
             CASE k = "mass" -> Num(150) [] k = "distance" -> Num(50)
               [] k = "device_on" -> Bool(TRUE)]) }

Objects ==
    FullBodies \cup
    UNION { { Obj(f) : f \in { g \in [ks -> UNION {FieldValues(k) : k \in ks}] :
                                  \A k \in ks : g[k] \in FieldValues(k) } }
            : ks \in KeySets }

Bodies == NonObjects \cup Objects

(* Python truthiness of the decoded body: `if not data` (app.py 76).       *)
Truthy(data) ==
    CASE data.kind \in {"obj", "arr", "str"} -> data.n > 0
      [] data.kind \in {"num", "bool"} -> data.n # 0
      [] OTHER -> FALSE

(* dict.get(key): the value, or None when the key is absent.               *)
Get(data, k) == IF k \in DOMAIN data.obj THEN data.obj[k] ELSE NULL

---------------------------------------------------------------------------
(* The harvest_data table (HarvestData, app.py 35-45).                     *)

(* What binding a Python value to a Float column stores: None as NULL, a   *)
(* number as itself, a string as the number it spells; anything else makes *)
(* the statement fail.                                                     *)
ToFloat(x) ==
    CASE x.t = "null" -> NULL
      [] x.t = "num" -> x
      [] x.t = "str" /\ x.v = "4.0" -> Num(40)
      [] x.t = "str" /\ x.v = "9.5" -> Num(95)
      [] OTHER -> RAISE

(* HarvestData(...) that leaves the size column unset. *)
HarvestData_nosize(mass, distance, temp, humid, timestamp) ==
    [id |-> 0, timestamp |-> timestamp, mass |-> mass, distance |-> distance,
     size |-> NULL, temp |-> temp, humid |-> humid]

(* HarvestData(mass=..., distance=..., size=get_size_class(mass), ...),    *)
(* app.py 84-91; the id is assigned by the insert.                         *)
HarvestData(mass, distance, temp, humid, timestamp) ==
    [id |-> 0, timestamp |-> timestamp, mass |-> mass, distance |-> distance,
     size |-> get_size_class(mass), temp |-> temp, humid |-> humid]

(* An insert that drops the oldest row, as a bounded list would. *)
commit_evict(t, row) ==
    LET m == ToFloat(row.mass)
        d == ToFloat(row.distance)
        c == ToFloat(row.temp)
        h == ToFloat(row.humid)
        new == [row EXCEPT !.id = Len(t) + 1, !.mass = m, !.distance = d,
                           !.temp = c, !.humid = h]
    IN  IF RAISE \in {m, d, c, h}
        THEN [ok |-> FALSE, table |-> t]
        ELSE [ok |-> TRUE,
              table |-> IF Len(t) >= 1 THEN Append(Tail(t), new)
                        ELSE Append(t, new)]

(* An insert whose failure leaves the row behind, bad values as NULL. *)
commit_partial(t, row) ==
    LET Fix(x) == IF ToFloat(x) = RAISE THEN NULL ELSE ToFloat(x)
        new == [row EXCEPT !.id = Len(t) + 1, !.mass = Fix(row.mass),
                           !.distance = Fix(row.distance),
                           !.temp = Fix(row.temp), !.humid = Fix(row.humid)]
    IN  [ok |-> RAISE \notin {ToFloat(row.mass), ToFloat(row.distance),
                              ToFloat(row.temp), ToFloat(row.humid)},
         table |-> Append(t, new)]

(* db.session.add(row); db.session.commit(), app.py 93-94: one INSERT in   *)
(* one transaction.  ok is FALSE when the statement fails, and then the    *)
(* table is as it was.                                                     *)
commit(t, row) ==
    LET m == ToFloat(row.mass)
        d == ToFloat(row.distance)
        c == ToFloat(row.temp)
        h == ToFloat(row.humid)
        new == [row EXCEPT !.id = Len(t) + 1, !.mass = m, !.distance = d,
                           !.temp = c, !.humid = h]
    IN  IF RAISE \in {m, d, c, h}
        THEN [ok |-> FALSE, table |-> t]
        ELSE [ok |-> TRUE, table |-> Append(t, new)]

---------------------------------------------------------------------------
(* update(), app.py 73-95, as one call: the status it answers with, the    *)
(* table afterwards, and whether it got as far as reading the clock        *)
(* (timestamp=datetime.utcnow() is evaluated after get_size_class(mass)).  *)

(* The part before the INSERT, app.py 75-91: a status when the call ends   *)
(* there, else status 0 and the row built.                                 *)
build(data, now) ==
    IF data.kind = "missing" THEN [status |-> 400, row |-> NULL]
    ELSE IF ~Truthy(data) THEN [status |-> 400, row |-> NULL]
    ELSE IF data.kind # "obj" THEN [status |-> 500, row |-> NULL]
    ELSE IF get_size_class(Get(data, "mass")) = RAISE
         THEN [status |-> 500, row |-> NULL]
    ELSE [status |-> 0,
          row |-> HarvestData(Get(data, "mass"), Get(data, "distance"),
                              Get(data, "temp"), Get(data, "humid"), now)]

update(t, now, data) ==
    LET b == build(data, now)
    IN  IF b.status # 0
        THEN [status |-> b.status, table |-> t, built |-> FALSE]
        ELSE LET c == commit(t, b.row)
             IN  [status |-> IF c.ok THEN 200 ELSE 500, table |-> c.table,
                  built |-> TRUE]

---------------------------------------------------------------------------
(* Calendar days: func.date(timestamp), date.isoformat() and               *)
(* datetime.strptime(date_str, "%Y-%m-%d").date().                         *)

date(timestamp) == timestamp \div TicksPerDay

MaxDay == date(MaxClock - 1)

isoformat(day) == "2024-01-0" \o ToString(day + 1)

(* The day a date string names, or -1 for the ValueError of a string that  *)
(* names none.                                                             *)
strptime(date_str) ==
    IF \E d \in 0 .. MaxDay : isoformat(d) = date_str
    THEN CHOOSE d \in 0 .. MaxDay : isoformat(d) = date_str
    ELSE -1

DateStrs == {isoformat(d) : d \in 0 .. MaxDay} \cup {"2024-13-01"}

---------------------------------------------------------------------------
(* Query helpers: what the SQL of the read pages computes.                 *)

RECURSIVE Ascending(_)
(* ORDER BY over a set of distinct keys. *)
Ascending(S) ==
    IF S = {} THEN <<>>
    ELSE LET m == CHOOSE x \in S : \A y \in S : x <= y
         IN  <<m>> \o Ascending(S \ {m})

RECURSIVE FirstSeen(_)
(* The distinct days of rows q in the order the scan meets them. *)
FirstSeen(q) ==
    IF q = <<>> THEN <<>>
    ELSE LET d == date(Head(q).timestamp)
         IN  <<d>> \o FirstSeen(SelectSeq(Tail(q),
                                 LAMBDA r : date(r.timestamp) # d))

RECURSIVE FoldMax(_)
FoldMax(xs) ==
    IF Len(xs) = 1 THEN Head(xs)
    ELSE LET m == FoldMax(Tail(xs)) IN IF Head(xs) > m THEN Head(xs) ELSE m

RECURSIVE FoldMin(_)
FoldMin(xs) ==
    IF Len(xs) = 1 THEN Head(xs)
    ELSE LET m == FoldMin(Tail(xs)) IN IF Head(xs) < m THEN Head(xs) ELSE m

RECURSIVE FoldSum(_)
FoldSum(xs) == IF xs = <<>> THEN 0 ELSE Head(xs) + FoldSum(Tail(xs))

(* AVG(col): the exact quotient num / den. *)
Avg(xs) == [num |-> FoldSum(xs), den |-> Len(xs)]

(* The values of column col in the rows of q whose timestamp is on day d;  *)
(* q holds no row with a NULL in col.                                      *)
Column(q, col, d) ==
    LET g == SelectSeq(q, LAMBDA r : date(r.timestamp) = d)
    IN  [i \in 1 .. Len(g) |-> g[i][col].v]

RECURSIVE SortByTimestamp(_)
(* ORDER BY timestamp: rows with equal timestamps keep their scan order. *)
SortByTimestamp(rows) ==
    IF rows = <<>> THEN <<>>
    ELSE LET i == CHOOSE j \in 1 .. Len(rows) :
                    /\ \A k \in 1 .. Len(rows) :
                           rows[j].timestamp <= rows[k].timestamp
                    /\ \A k \in 1 .. (j - 1) :
                           rows[k].timestamp # rows[j].timestamp
             rest == [k \in 1 .. (Len(rows) - 1) |->
                         IF k < i THEN rows[k] ELSE rows[k + 1]]
         IN  <<rows[i]>> \o SortByTimestamp(rest)

---------------------------------------------------------------------------
(* The read pages: the status and the data handed to the template.         *)

(* home(), app.py 101-141 *)
home == [status |-> 200, rows |-> <<>>]

(* harvest_overview() without its ORDER BY. *)
harvest_overview_unordered(t) ==
    LET q == SelectSeq(t, LAMBDA r : r.mass # NULL)
        days == FirstSeen(q)
    IN  [status |-> 200,
         rows |-> [i \in 1 .. Len(days) |->
                     LET ms == Column(q, "mass", days[i])
                     IN  [day |-> days[i], day_str |-> isoformat(days[i]),
                          max_mass |-> FoldMax(ms), avg_mass |-> Avg(ms),
                          min_mass |-> FoldMin(ms)]]]

(* harvest_overview(), app.py 147-169 *)
harvest_overview(t) ==
    LET q == SelectSeq(t, LAMBDA r : r.mass # NULL)
        days == Ascending({date(q[i].timestamp) : i \in 1 .. Len(q)})
    IN  [status |-> 200,
         rows |-> [i \in 1 .. Len(days) |->
                     LET ms == Column(q, "mass", days[i])
                     IN  [day |-> days[i], day_str |-> isoformat(days[i]),
                          max_mass |-> FoldMax(ms), avg_mass |-> Avg(ms),
                          min_mass |-> FoldMin(ms)]]]

(* harvest_day_detail(date_str), app.py 255-278 *)
harvest_day_detail(t, date_str) ==
    LET day == strptime(date_str)
        start == day * TicksPerDay
        end == start + TicksPerDay
    IN  IF day = -1 THEN [status |-> 400, rows |-> <<>>]
        ELSE [status |-> 200,
              rows |-> SortByTimestamp(SelectSeq(t, LAMBDA r :
                           r.timestamp >= start /\ r.timestamp < end))]

(* temp_overview(), app.py 363-381, and humid_overview(), app.py 439-457:  *)
(* the daily average of one column.                                        *)
day_avg(t, col) ==
    LET q == SelectSeq(t, LAMBDA r : r[col] # NULL)
        days == Ascending({date(q[i].timestamp) : i \in 1 .. Len(q)})
    IN  [status |-> 200,
         rows |-> [i \in 1 .. Len(days) |->
                     [day_str |-> isoformat(days[i]),
                      avg |-> Avg(Column(q, col, days[i]))]]]

temp_overview(t) == day_avg(t, "temp")

humid_overview(t) == day_avg(t, "humid")

---------------------------------------------------------------------------
(* One request at a time: every handler runs from start to end.            *)

Procs == 1 .. NumProcs

NoBody == Body("none", 0)

Idle == [data |-> NoBody, row |-> NULL]

Response(route, data, date_str, r) ==
    [route |-> route, data |-> data, date_str |-> date_str,
     status |-> r.status, rows |-> r.rows]

Init ==
    /\ table = <<>>
    /\ utcnow = 0
    /\ last = Response("none", NoBody, "", [status |-> 0, rows |-> <<>>])
    /\ pc = [p \in Procs |-> "idle"]
    /\ pending = [p \in Procs |-> Idle]
    /\ okCount = 0
    /\ arg = NULL
    /\ ret = PENDING

(* POST /update *)
PostUpdate(data) ==
    /\ Len(table) < MaxRows
    /\ utcnow < MaxClock
    /\ LET r == update(table, utcnow, data)
       IN  /\ table' = r.table
           /\ utcnow' \in IF r.built THEN (utcnow + 1) .. MaxClock ELSE {utcnow}
           /\ last' = Response("update", data, "",
                               [status |-> r.status, rows |-> <<>>])
    /\ UNCHANGED <<pc, pending, okCount, arg, ret>>

(* GET / *)
GetHome ==
    /\ last' = Response("home", NoBody, "", home)
    /\ UNCHANGED <<table, utcnow, pc, pending, okCount, arg, ret>>

(* GET /harvest *)
GetHarvest ==
    /\ last' = Response("harvest", NoBody, "", harvest_overview(table))
    /\ UNCHANGED <<table, utcnow, pc, pending, okCount, arg, ret>>

(* GET /harvest/<date_str> *)
GetHarvestDay(date_str) ==
    /\ last' = Response("harvest_day", NoBody, date_str,
                        harvest_day_detail(table, date_str))
    /\ UNCHANGED <<table, utcnow, pc, pending, okCount, arg, ret>>

(* GET /temp *)
GetTemp ==
    /\ last' = Response("temp", NoBody, "", temp_overview(table))
    /\ UNCHANGED <<table, utcnow, pc, pending, okCount, arg, ret>>

(* GET /humid *)
GetHumid ==
    /\ last' = Response("humid", NoBody, "", humid_overview(table))
    /\ UNCHANGED <<table, utcnow, pc, pending, okCount, arg, ret>>

Next ==
    \/ \E data \in Bodies : PostUpdate(data)
    \/ GetHome
    \/ GetHarvest
    \/ \E date_str \in DateStrs : GetHarvestDay(date_str)
    \/ GetTemp
    \/ GetHumid

Spec == Init /\ [][Next]_vars

---------------------------------------------------------------------------
(* Concurrent /update calls: each worker runs update() in three steps, the *)
(* code before the INSERT, the INSERT's transaction, and the return.       *)

Measurement(m, d) == Obj(("mass" :> m) @@ ("distance" :> d))

ConcBodies ==
    { Body("arr", 1), Body("arr", 0),
      Measurement(Num(95), Num(40)), Measurement(Num(150), Num(50)),
      Measurement(Num(150), Str("abc")), Obj("temp" :> Num(200)) }

InFlight == {p \in Procs : pc[p] # "idle"}

(* app.py 75-91 *)
Begin(p, data) ==
    /\ pc[p] = "idle"
    /\ LET b == build(data, utcnow)
       IN  IF b.status # 0
           THEN /\ last' = Response("update", data, "",
                                    [status |-> b.status, rows |-> <<>>])
                /\ UNCHANGED <<utcnow, pc, pending>>
           ELSE /\ Len(table) + Cardinality(InFlight) < MaxRows
                /\ utcnow < MaxClock
                /\ utcnow' \in (utcnow + 1) .. MaxClock
                /\ pc' = [pc EXCEPT ![p] = "built"]
                /\ pending' = [pending EXCEPT ![p] = [data |-> data, row |-> b.row]]
                /\ UNCHANGED last
    /\ UNCHANGED <<table, okCount, arg, ret>>

(* app.py 93-94 *)
Commit(p) ==
    /\ pc[p] = "built"
    /\ LET c == commit(table, pending[p].row)
       IN  /\ table' = c.table
           /\ IF c.ok
              THEN /\ pc' = [pc EXCEPT ![p] = "committed"]
                   /\ UNCHANGED <<pending, last>>
              ELSE /\ pc' = [pc EXCEPT ![p] = "idle"]
                   /\ pending' = [pending EXCEPT ![p] = Idle]
                   /\ last' = Response("update", pending[p].data, "",
                                       [status |-> 500, rows |-> <<>>])
    /\ UNCHANGED <<utcnow, okCount, arg, ret>>

(* app.py 95 *)
Return(p) ==
    /\ pc[p] = "committed"
    /\ pc' = [pc EXCEPT ![p] = "idle"]
    /\ pending' = [pending EXCEPT ![p] = Idle]
    /\ okCount' = okCount + 1
    /\ last' = Response("update", pending[p].data, "",
                        [status |-> 200, rows |-> <<>>])
    /\ UNCHANGED <<table, utcnow, arg, ret>>

NextConc ==
    \/ \E p \in Procs, data \in ConcBodies : Begin(p, data)
    \/ \E p \in Procs : Commit(p)
    \/ \E p \in Procs : Return(p)
    \/ GetHarvest

SpecConc == Init /\ [][NextConc]_vars

---------------------------------------------------------------------------
(* The classifier on its own: one call of get_size_class on each input.    *)

ClassifyArgs ==
    {Num(m) : m \in (0 - MassRange) .. MassRange} \cup {NULL, Str("abc")}

InitClassify ==
    /\ table = <<>>
    /\ utcnow = 0
    /\ last = Response("none", NoBody, "", [status |-> 0, rows |-> <<>>])
    /\ pc = [p \in Procs |-> "idle"]
    /\ pending = [p \in Procs |-> Idle]
    /\ okCount = 0
    /\ arg \in ClassifyArgs
    /\ ret = PENDING

Classify ==
    /\ ret = PENDING
    /\ ret' = get_size_class(arg)
    /\ UNCHANGED <<table, utcnow, last, pc, pending, okCount, arg>>

NextClassify == Classify

SpecClassify == InitClassify /\ [][NextClassify]_vars

---------------------------------------------------------------------------
(* Properties of the /update handler's validation.                         *)

HasKeys(data, ks) == data.kind = "obj" /\ ks \subseteq DOMAIN data.obj

(* A non-empty object that is neither a measurement nor a power-on notice. *)
Unrecognized(data) ==
    /\ data.kind = "obj"
    /\ data.n > 0
    /\ ~HasKeys(data, {"mass", "distance"})
    /\ ~HasKeys(data, {"device_on"})

(* A value no number can be made of. *)
NotNumeric(x) == ~(x.t = "num" \/ (x.t = "str" /\ x.v \in {"4.0", "9.5"}))

(* C1: a call of /update whose non-empty object has neither both mass and  *)
(* distance nor device_on is answered 400, and the number of stored        *)
(* records after it is the number before it.                               *)
C1_UnrecognizedRejected ==
    [][ (last'.route = "update" /\ Unrecognized(last'.data))
            => (last'.status = 400 /\ Len(table') = Len(table)) ]_vars

(* C2: every stored record has mass, distance and size all null, or has    *)
(* both mass and distance; and the record a payload with device_on         *)
(* created carries no measurement values.                                  *)
C2_RecordShape ==
    /\ \A i \in 1 .. Len(table) :
           \/ table[i].mass = NULL /\ table[i].distance = NULL
                                   /\ table[i].size = NULL
           \/ table[i].mass # NULL /\ table[i].distance # NULL
    /\ (last.route = "update" /\ last.status = 200
            /\ HasKeys(last.data, {"device_on"}))
           => LET r == table[Len(table)]
              IN  r.mass = NULL /\ r.distance = NULL /\ r.size = NULL

(* C3: a call of /update with both mass and distance, one of them not      *)
(* convertible to a number, is answered 400 and leaves the table as it     *)
(* was; no stored mass or distance is anything but a number.               *)
C3_ValueErrorRejected ==
    /\ [][ (/\ last'.route = "update"
            /\ HasKeys(last'.data, {"mass", "distance"})
            /\ \/ NotNumeric(last'.data.obj["mass"])
               \/ NotNumeric(last'.data.obj["distance"]))
               => (last'.status = 400 /\ table' = table) ]_vars
    /\ [](\A i \in 1 .. Len(table) :
              /\ table[i].mass.t \in {"num", "null"}
              /\ table[i].distance.t \in {"num", "null"})

(* C4: a call of /update whose body is missing, is empty, or is JSON that  *)
(* is not an object is answered 400 and leaves the table as it was.        *)
C4_FormatErrorRejected ==
    [][ (last'.route = "update"
            /\ (last'.data.kind # "obj" \/ last'.data.n = 0))
            => (last'.status = 400 /\ table' = table) ]_vars

---------------------------------------------------------------------------
(* Properties of what /update stores.                                      *)

(* C5: under any interleaving of /update calls every stored record belongs *)
(* to a call that returned 200 or has committed and is about to: the       *)
(* number of records is the number of successful calls once no call is     *)
(* between its INSERT and its return, and failed calls add none.           *)
C5_CountMatchesSuccesses ==
    Len(table) = okCount + Cardinality({p \in Procs : pc[p] = "committed"})

C5_Witness ==
    /\ okCount = 2
    /\ Len(table) = 2
    /\ InFlight = {}
    /\ table[1].timestamp > table[2].timestamp
    /\ last.status = 500

(* C6: every stored record with a mass has the size get_size_class gives   *)
(* for that mass, and no step changes the size of a stored record.         *)
C6_SizeFixedAtIngestion ==
    /\ [](\A i \in 1 .. Len(table) :
              table[i].mass # NULL
                  => table[i].size = get_size_class(table[i].mass))
    /\ [][ \A i \in 1 .. Len(table) :
               i <= Len(table') /\ table'[i].size = table[i].size ]_vars

C6_Witness ==
    /\ Len(table) = 2
    /\ table[1].mass = Num(150) /\ table[1].size = Str("2L")
    /\ table[2].mass = Num(95) /\ table[2].size = Str("M")
    /\ last.route = "harvest_day" /\ last.status = 200
    /\ Len(last.rows) = 2

(* C7: on every numeric mass get_size_class returns a label of             *)
(* {S, M, L, 2L}: S below 8, M from 8 and below 10, L from 10 and below    *)
(* 14, 2L from 14 on.                                                      *)
C7_ThresholdTable ==
    (ret # PENDING /\ arg.t = "num") =>
        /\ ret \in Labels
        /\ arg.v < 80 => ret = Str("S")
        /\ (arg.v >= 80 /\ arg.v < 100) => ret = Str("M")
        /\ (arg.v >= 100 /\ arg.v < 140) => ret = Str("L")
        /\ arg.v >= 140 => ret = Str("2L")

C7_Witness == arg = Num(140) /\ ret = Str("2L")

(* The state of the example: from an empty table, {mass 9.5, distance 4.0} *)
(* then {mass 15.0, distance 5.0} were stored on one day, and that day's   *)
(* listing was read.                                                       *)
C8_Example ==
    /\ Len(table) = 2
    /\ table[1].mass = Num(95) /\ table[1].distance = Num(40)
    /\ table[2].mass = Num(150) /\ table[2].distance = Num(50)
    /\ date(table[1].timestamp) = date(table[2].timestamp)
    /\ last.route = "harvest_day"
    /\ last.date_str = isoformat(date(table[1].timestamp))

(* C8, as claimed: the listing holds the two records in submission order,  *)
(* with sizes M and L.                                                     *)
C8_SizesMThenL ==
    C8_Example =>
        /\ last.rows = <<table[1], table[2]>>
        /\ last.rows[1].size = Str("M")
        /\ last.rows[2].size = Str("L")

(* C8, amended: the listing holds the two records in submission order,     *)
(* with sizes M and 2L.                                                    *)
C8_SizesMThen2L ==
    C8_Example =>
        /\ last.status = 200
        /\ last.rows = <<table[1], table[2]>>
        /\ last.rows[1].size = Str("M")
        /\ last.rows[2].size = Str("2L")

C8_Witness == C8_Example /\ Len(last.rows) = 2

---------------------------------------------------------------------------
(* Properties of the read pages.                                           *)

(* The rows with a mass whose timestamp is on day d. *)
Measured(d) ==
    {i \in 1 .. Len(table) :
         table[i].mass # NULL /\ date(table[i].timestamp) = d}

RECURSIVE MassSum(_)
MassSum(I) ==
    IF I = {} THEN 0
    ELSE LET i == CHOOSE j \in I : TRUE
         IN  table[i].mass.v + MassSum(I \ {i})

(* C9: the daily aggregation has one row for each day with a record that   *)
(* has a mass and none for any other day, in ascending day order, and a    *)
(* row's values are the minimum, mean and maximum of that day's masses.    *)
C9_DailyAggregation ==
    LET rows == harvest_overview(table).rows
        Days == {d \in 0 .. MaxDay : Measured(d) # {}}
    IN  /\ {rows[i].day : i \in 1 .. Len(rows)} = Days
        /\ \A i, j \in 1 .. Len(rows) : i < j => rows[i].day < rows[j].day
        /\ \A i \in 1 .. Len(rows) :
               LET r == rows[i]
                   ms == {table[k].mass.v : k \in Measured(r.day)}
               IN  /\ r.min_mass \in ms /\ \A m \in ms : r.min_mass <= m
                   /\ r.max_mass \in ms /\ \A m \in ms : m <= r.max_mass
                   /\ r.avg_mass.den = Cardinality(Measured(r.day))
                   /\ r.avg_mass.num = MassSum(Measured(r.day))
                   /\ r.min_mass * r.avg_mass.den <= r.avg_mass.num
                   /\ r.avg_mass.num <= r.max_mass * r.avg_mass.den

C9_Witness ==
    /\ last.route = "harvest"
    /\ last.rows = harvest_overview(table).rows
    /\ Len(table) = 2
    /\ Len(last.rows) = 1
    /\ last.rows[1].min_mass = 95
    /\ last.rows[1].avg_mass = [num |-> 245, den |-> 2]
    /\ last.rows[1].max_mass = 150

(* C10: no step removes or changes a stored record, and the read pages,    *)
(* /harvest/<date> with an invalid date included, leave the table as it    *)
(* was.                                                                    *)
C10_AppendOnly ==
    [][ /\ Len(table') >= Len(table)
        /\ \A i \in 1 .. Len(table) : table'[i] = table[i]
        /\ last'.route # "update" => table' = table ]_vars

C10_Witness ==
    /\ Len(table) = 2
    /\ last.route = "harvest_day"
    /\ last.status = 400

====
